---- MODULE Spec2Model ----
(***************************************************************************)
(* vers-rs: version range specifiers `vers:<scheme>/<constraint>|...`.     *)
(*                                                                         *)
(* Text is a sequence of one-character strings.  A version is a natural    *)
(* number whose text is its decimal numeral (the version capability is     *)
(* generic: parse, default, total order, display).  The model follows      *)
(* src/src/range.rs (from_str, normalize_and_validate, contains, Display), *)
(* src/src/constraint.rs (VersionConstraint::parse),                       *)
(* src/src/comparator.rs (Comparator, its Display) and                     *)
(* src/src/range/dynamic.rs (the parser that dispatches on the scheme).    *)
(***************************************************************************)
EXTENDS Integers, Sequences, FiniteSets, TLC

VARIABLES pc, text, given, range, result, query, shown, reparsed,
          spaced, loop_other, loop_filtered, dynamic, permuted

vars == <<pc, text, given, range, result, query, shown, reparsed,
          spaced, loop_other, loop_filtered, dynamic, permuted>>

(***************************************************************************)
(* Bounds of the model.                                                    *)
(***************************************************************************)
\* longest constraint list handed to from_str or to new
MaxLen == 3
\* number of distinct versions the constraints of an input may carry
NumVersions == 3

\* Constraints sit on the odd versions 1, 3, 5, ... and queries range over
\* every version from 0 to one above the largest, so that a query below,
\* on, between and above the constraint versions always exists.
ConstraintVersions == {2 * i - 1 : i \in 1..NumVersions}
QueryVersions == 0..(2 * NumVersions)

(***************************************************************************)
(* Text helpers (std: str::replace, splitn, trim, trim_matches, split).    *)
(***************************************************************************)
Whitespace == {" ", "\t"}

\* StripWhitespace that removes the spaces and leaves the tabs
StripWhitespaceSpacesOnly(s) == SelectSeq(s, LAMBDA c : c # " ")

StripWhitespace(s) == SelectSeq(s, LAMBDA c : c \notin Whitespace)

\* index of the first occurrence of character c in s, 0 when absent
FirstIndex(s, c) ==
    IF \E i \in 1..Len(s) : s[i] = c
    THEN CHOOSE i \in 1..Len(s) : s[i] = c /\ \A j \in 1..(i - 1) : s[j] # c
    ELSE 0

\* SplitN2 that gives an empty second part when c is absent
SplitN2AlwaysTwo(s, c) ==
    LET i == FirstIndex(s, c)
    IN  IF i = 0 THEN <<s, <<>>>>
        ELSE <<SubSeq(s, 1, i - 1), SubSeq(s, i + 1, Len(s))>>

\* s.splitn(2, c): one part when c is absent, else the text before the
\* first c and the whole text after it
SplitN2(s, c) ==
    LET i == FirstIndex(s, c)
    IN  IF i = 0 THEN <<s>>
        ELSE <<SubSeq(s, 1, i - 1), SubSeq(s, i + 1, Len(s))>>

RECURSIVE TrimStart(_, _)
TrimStart(s, set) ==
    IF s # <<>> /\ Head(s) \in set THEN TrimStart(Tail(s), set) ELSE s

RECURSIVE TrimEnd(_, _)
TrimEnd(s, set) ==
    IF s # <<>> /\ s[Len(s)] \in set
    THEN TrimEnd(SubSeq(s, 1, Len(s) - 1), set)
    ELSE s

Trim(s) == TrimEnd(TrimStart(s, Whitespace), Whitespace)

TrimMatches(s, c) == TrimEnd(TrimStart(s, {c}), {c})

\* s.split(c): all segments, the empty ones included
RECURSIVE Split(_, _)
Split(s, c) ==
    LET i == FirstIndex(s, c)
    IN  IF i = 0 THEN <<s>>
        ELSE <<SubSeq(s, 1, i - 1)>> \o Split(SubSeq(s, i + 1, Len(s)), c)

StartsWith(s, p) == Len(s) >= Len(p) /\ SubSeq(s, 1, Len(p)) = p

LowerCase ==
    [c \in {"V", "E", "R", "S", "N", "P", "M", "I", "Y"} |->
        CASE c = "V" -> "v" [] c = "E" -> "e" [] c = "R" -> "r" [] c = "S" -> "s"
          [] c = "N" -> "n" [] c = "P" -> "p" [] c = "M" -> "m" [] c = "I" -> "i"
          [] c = "Y" -> "y"]

ToLowercase(s) ==
    [i \in 1..Len(s) |-> IF s[i] \in DOMAIN LowerCase THEN LowerCase[s[i]] ELSE s[i]]

(***************************************************************************)
(* The version capability: V::from_str, V::default, Display for V.         *)
(***************************************************************************)
Digits == <<"0", "1", "2", "3", "4", "5", "6", "7", "8", "9">>

DigitValue(c) == (CHOOSE i \in 1..10 : Digits[i] = c) - 1

IsDigit(c) == \E i \in 1..10 : Digits[i] = c

RECURSIVE VersionToString(_)
VersionToString(v) ==
    IF v < 10 THEN <<Digits[v + 1]>>
    ELSE VersionToString(v \div 10) \o <<Digits[(v % 10) + 1]>>

RECURSIVE NumeralValue(_)
NumeralValue(s) ==
    IF s = <<>> THEN 0
    ELSE 10 * NumeralValue(SubSeq(s, 1, Len(s) - 1)) + DigitValue(s[Len(s)])

\* a numeral without a leading zero parses; anything else is rejected
VersionParses(s) ==
    /\ s # <<>>
    /\ \A i \in 1..Len(s) : IsDigit(s[i])
    /\ (Len(s) > 1 => s[1] # "0")

VersionFromStr(s) == NumeralValue(s)

VersionDefault == 0

(***************************************************************************)
(* Comparator and its Display.                                             *)
(***************************************************************************)
Comparator ==
    {"Equal", "NotEqual", "LessThan", "LessThanOrEqual",
     "GreaterThan", "GreaterThanOrEqual", "Any"}

ComparatorToString(c) ==
    CASE c = "Equal" -> <<"=">>
      [] c = "NotEqual" -> <<"!", "=">>
      [] c = "LessThan" -> <<"<">>
      [] c = "LessThanOrEqual" -> <<"<", "=">>
      [] c = "GreaterThan" -> <<">">>
      [] c = "GreaterThanOrEqual" -> <<">", "=">>
      [] c = "Any" -> <<"*">>

VersionConstraintNew(comparator, version) ==
    [comparator |-> comparator, version |-> version]

(***************************************************************************)
(* Results.  An error carries its kind, the text it quotes and, for the    *)
(* two formatted InvalidRange messages, the two comparators it names.      *)
(***************************************************************************)
Err(kind, msg, detail, first, second) ==
    [ok |-> FALSE, kind |-> kind, msg |-> msg, detail |-> detail,
     first |-> first, second |-> second]

OkUnit == [ok |-> TRUE]

OkValue(v) == [ok |-> TRUE, value |-> v]

(***************************************************************************)
(* percent_decode_str(version).decode_utf8(): `%` followed by two hex      *)
(* digits becomes one byte, any other `%` stays as it is.  The texts of    *)
(* the model write hex digits with decimal digits only, so a decoded byte  *)
(* is a digit (0x30..0x39), another ASCII character (written "?"), or a    *)
(* byte 0x80..0x99, a lone continuation byte, which is not UTF-8.          *)
(***************************************************************************)
RECURSIVE PercentDecode(_)
PercentDecode(s) ==
    IF s = <<>> THEN <<>>
    ELSE IF s[1] = "%" /\ Len(s) >= 3 /\ IsDigit(s[2]) /\ IsDigit(s[3])
         THEN LET byte == IF DigitValue(s[2]) >= 8 THEN "invalid-utf8"
                          ELSE IF s[2] = "3" THEN s[3]
                          ELSE "?"
              IN  <<byte>> \o PercentDecode(SubSeq(s, 4, Len(s)))
         ELSE <<s[1]>> \o PercentDecode(Tail(s))

DecodesAsUtf8(s) == \A i \in 1..Len(PercentDecode(s)) : PercentDecode(s)[i] # "invalid-utf8"

(***************************************************************************)
(* VersionConstraint::parse                                                *)
(***************************************************************************)
VersionConstraintParse(constraint_str) ==
    IF constraint_str = <<>>
    THEN Err("InvalidConstraint", "Empty constraint", <<>>, "", "")
    ELSE IF constraint_str = <<"*">>
    THEN OkValue(VersionConstraintNew("Any", VersionDefault))
    ELSE
      LET split ==
            IF StartsWith(constraint_str, <<">", "=">>)
            THEN <<"GreaterThanOrEqual", SubSeq(constraint_str, 3, Len(constraint_str))>>
            ELSE IF StartsWith(constraint_str, <<"<", "=">>)
            THEN <<"LessThanOrEqual", SubSeq(constraint_str, 3, Len(constraint_str))>>
            ELSE IF StartsWith(constraint_str, <<"!", "=">>)
            THEN <<"NotEqual", SubSeq(constraint_str, 3, Len(constraint_str))>>
            ELSE IF StartsWith(constraint_str, <<">">>)
            THEN <<"GreaterThan", Tail(constraint_str)>>
            ELSE IF StartsWith(constraint_str, <<"<">>)
            THEN <<"LessThan", Tail(constraint_str)>>
            ELSE <<"Equal", constraint_str>>
          comparator == split[1]
          version == Trim(split[2])
      IN  IF version = <<>> /\ comparator # "Any"
          THEN Err("InvalidConstraint", "Missing version", <<>>, "", "")
          ELSE IF (\E i \in 1..Len(version) : version[i] = "%") /\ ~DecodesAsUtf8(version)
          THEN Err("InvalidConstraint", "Invalid URL encoding", version, "", "")
          ELSE
            LET version_str ==
                  IF \E i \in 1..Len(version) : version[i] = "%"
                  THEN PercentDecode(version) ELSE version
            IN  IF ~VersionParses(version_str)
                THEN Err("InvalidConstraint", "Failed to parse version", version_str, "", "")
                ELSE OkValue(VersionConstraintNew(comparator, VersionFromStr(version_str)))

(***************************************************************************)
(* VersionRange::new and VersionRange::normalize_and_validate              *)
(***************************************************************************)
VersionRangeNew(versioning_scheme, constraints) ==
    [versioning_scheme |-> versioning_scheme, constraints |-> constraints]

LowerBounds == {"GreaterThan", "GreaterThanOrEqual"}
UpperBounds == {"LessThan", "LessThanOrEqual"}

\* InsertByVersion that compares nothing and appends
InsertByVersionAtEnd(sorted, c) == Append(sorted, c)

\* insertion of c behind every element whose version is not larger: the
\* sort is stable
RECURSIVE InsertByVersion(_, _)
InsertByVersion(sorted, c) ==
    IF sorted = <<>> THEN <<c>>
    ELSE IF c.version < Head(sorted).version THEN <<c>> \o sorted
    ELSE <<Head(sorted)>> \o InsertByVersion(Tail(sorted), c)

RECURSIVE SortByVersion(_)
SortByVersion(cs) ==
    IF cs = <<>> THEN <<>>
    ELSE InsertByVersion(SortByVersion(SubSeq(cs, 1, Len(cs) - 1)), cs[Len(cs)])

\* FirstDuplicate comparing the first two constraints only
FirstDuplicateAtHead(sorted) ==
    IF Len(sorted) >= 2 /\ sorted[2].version = sorted[1].version THEN 2 ELSE 0

\* index of the first constraint whose version equals its predecessor's, 0 if none
FirstDuplicate(sorted) ==
    IF \E i \in 2..Len(sorted) : sorted[i].version = sorted[i - 1].version
    THEN CHOOSE i \in 2..Len(sorted) :
            /\ sorted[i].version = sorted[i - 1].version
            /\ \A j \in 2..(i - 1) : sorted[j].version # sorted[j - 1].version
    ELSE 0

\* WorkListStep that discards the current upper bound without going back
\* to the constraint accepted before it
WorkListStepWithoutPushBack(other_constraints, filtered_constraints) ==
    LET current == Head(other_constraints)
        rest == Tail(other_constraints)
        accepted == Len(filtered_constraints)
    IN  IF rest = <<>>
        THEN <<rest, Append(filtered_constraints, current)>>
        ELSE
          LET next == Head(rest)
          IN  IF /\ current.comparator \in LowerBounds
                 /\ next.comparator \in LowerBounds \cup {"Equal"}
              THEN \* discard next, push current back
                   <<(<<current>> \o Tail(rest)), filtered_constraints>>
              ELSE IF /\ current.comparator \in UpperBounds \cup {"Equal"}
                      /\ next.comparator \in UpperBounds
              THEN \* discard current
                   <<rest, filtered_constraints>>
              ELSE IF /\ accepted > 0
                      /\ filtered_constraints[accepted].comparator \in LowerBounds
                      /\ current.comparator \in LowerBounds \cup {"Equal"}
              THEN \* discard current
                   <<rest, filtered_constraints>>
              ELSE IF /\ accepted > 0
                      /\ filtered_constraints[accepted].comparator \in UpperBounds \cup {"Equal"}
                      /\ current.comparator \in UpperBounds
              THEN \* discard previous, keep current
                   <<rest, Append(SubSeq(filtered_constraints, 1, accepted - 1), current)>>
              ELSE <<rest, Append(filtered_constraints, current)>>

\* WorkListStep that pushes the previous constraint back in front of the
\* current one, which it fails to discard
WorkListStepRepushesCurrent(other_constraints, filtered_constraints) ==
    LET current == Head(other_constraints)
        rest == Tail(other_constraints)
        accepted == Len(filtered_constraints)
    IN  IF rest = <<>>
        THEN <<rest, Append(filtered_constraints, current)>>
        ELSE
          LET next == Head(rest)
          IN  IF /\ current.comparator \in LowerBounds
                 /\ next.comparator \in LowerBounds \cup {"Equal"}
              THEN \* discard next, push current back
                   <<(<<current>> \o Tail(rest)), filtered_constraints>>
              ELSE IF /\ current.comparator \in UpperBounds \cup {"Equal"}
                      /\ next.comparator \in UpperBounds
              THEN \* discard current, the previous one becomes current
                   IF accepted > 0
                   THEN <<(<<filtered_constraints[accepted], current>> \o rest),
                          SubSeq(filtered_constraints, 1, accepted - 1)>>
                   ELSE <<rest, filtered_constraints>>
              ELSE IF /\ accepted > 0
                      /\ filtered_constraints[accepted].comparator \in LowerBounds
                      /\ current.comparator \in LowerBounds \cup {"Equal"}
              THEN \* discard current
                   <<rest, filtered_constraints>>
              ELSE IF /\ accepted > 0
                      /\ filtered_constraints[accepted].comparator \in UpperBounds \cup {"Equal"}
                      /\ current.comparator \in UpperBounds
              THEN \* discard previous, keep current
                   <<rest, Append(SubSeq(filtered_constraints, 1, accepted - 1), current)>>
              ELSE <<rest, Append(filtered_constraints, current)>>

\* WorkListStep that, of two upper bounds in a row, discards the later one
WorkListStepKeepsSmallerUpper(other_constraints, filtered_constraints) ==
    LET current == Head(other_constraints)
        rest == Tail(other_constraints)
        accepted == Len(filtered_constraints)
    IN  IF rest = <<>>
        THEN <<rest, Append(filtered_constraints, current)>>
        ELSE
          LET next == Head(rest)
          IN  IF /\ current.comparator \in LowerBounds
                 /\ next.comparator \in LowerBounds \cup {"Equal"}
              THEN \* discard next, push current back
                   <<(<<current>> \o Tail(rest)), filtered_constraints>>
              ELSE IF /\ current.comparator \in UpperBounds \cup {"Equal"}
                      /\ next.comparator \in UpperBounds
              THEN \* discard next, push current back
                   <<(<<current>> \o Tail(rest)), filtered_constraints>>
              ELSE IF /\ accepted > 0
                      /\ filtered_constraints[accepted].comparator \in LowerBounds
                      /\ current.comparator \in LowerBounds \cup {"Equal"}
              THEN \* discard current
                   <<rest, filtered_constraints>>
              ELSE IF /\ accepted > 0
                      /\ filtered_constraints[accepted].comparator \in UpperBounds \cup {"Equal"}
                      /\ current.comparator \in UpperBounds
              THEN \* discard previous, keep current
                   <<rest, Append(SubSeq(filtered_constraints, 1, accepted - 1), current)>>
              ELSE <<rest, Append(filtered_constraints, current)>>

\* WorkListStep that, of two lower bounds in a row, forgets to push the
\* current one back
WorkListStepDropsBoth(other_constraints, filtered_constraints) ==
    LET current == Head(other_constraints)
        rest == Tail(other_constraints)
        accepted == Len(filtered_constraints)
    IN  IF rest = <<>>
        THEN <<rest, Append(filtered_constraints, current)>>
        ELSE
          LET next == Head(rest)
          IN  IF /\ current.comparator \in LowerBounds
                 /\ next.comparator \in LowerBounds \cup {"Equal"}
              THEN \* discard next, current is not pushed back
                   <<Tail(rest), filtered_constraints>>
              ELSE IF /\ current.comparator \in UpperBounds \cup {"Equal"}
                      /\ next.comparator \in UpperBounds
              THEN \* discard current, the previous one becomes current
                   IF accepted > 0
                   THEN <<(<<filtered_constraints[accepted]>> \o rest),
                          SubSeq(filtered_constraints, 1, accepted - 1)>>
                   ELSE <<rest, filtered_constraints>>
              ELSE IF /\ accepted > 0
                      /\ filtered_constraints[accepted].comparator \in LowerBounds
                      /\ current.comparator \in LowerBounds \cup {"Equal"}
              THEN \* discard current
                   <<rest, filtered_constraints>>
              ELSE IF /\ accepted > 0
                      /\ filtered_constraints[accepted].comparator \in UpperBounds \cup {"Equal"}
                      /\ current.comparator \in UpperBounds
              THEN \* discard previous, keep current
                   <<rest, Append(SubSeq(filtered_constraints, 1, accepted - 1), current)>>
              ELSE <<rest, Append(filtered_constraints, current)>>

\* WorkListStep that, of two lower bounds in a row, keeps the later one
WorkListStepKeepsNext(other_constraints, filtered_constraints) ==
    LET current == Head(other_constraints)
        rest == Tail(other_constraints)
        accepted == Len(filtered_constraints)
    IN  IF rest = <<>>
        THEN <<rest, Append(filtered_constraints, current)>>
        ELSE
          LET next == Head(rest)
          IN  IF /\ current.comparator \in LowerBounds
                 /\ next.comparator \in LowerBounds \cup {"Equal"}
              THEN <<rest, filtered_constraints>>
              ELSE IF /\ current.comparator \in UpperBounds \cup {"Equal"}
                      /\ next.comparator \in UpperBounds
              THEN IF accepted > 0
                   THEN <<(<<filtered_constraints[accepted]>> \o rest),
                          SubSeq(filtered_constraints, 1, accepted - 1)>>
                   ELSE <<rest, filtered_constraints>>
              ELSE IF /\ accepted > 0
                      /\ filtered_constraints[accepted].comparator \in LowerBounds
                      /\ current.comparator \in LowerBounds \cup {"Equal"}
              THEN <<rest, filtered_constraints>>
              ELSE IF /\ accepted > 0
                      /\ filtered_constraints[accepted].comparator \in UpperBounds \cup {"Equal"}
                      /\ current.comparator \in UpperBounds
              THEN <<rest, Append(SubSeq(filtered_constraints, 1, accepted - 1), current)>>
              ELSE <<rest, Append(filtered_constraints, current)>>

\* WorkListStep that, of two lower bounds in a row, discards the earlier one
WorkListStepDropsCurrentLower(other_constraints, filtered_constraints) ==
    LET current == Head(other_constraints)
        rest == Tail(other_constraints)
        accepted == Len(filtered_constraints)
    IN  IF rest = <<>>
        THEN <<rest, Append(filtered_constraints, current)>>
        ELSE
          LET next == Head(rest)
          IN  IF /\ current.comparator \in LowerBounds
                 /\ next.comparator \in LowerBounds
              THEN <<rest, filtered_constraints>>
              ELSE IF /\ current.comparator \in LowerBounds
                      /\ next.comparator = "Equal"
              THEN <<(<<current>> \o Tail(rest)), filtered_constraints>>
              ELSE IF /\ current.comparator \in UpperBounds \cup {"Equal"}
                      /\ next.comparator \in UpperBounds
              THEN IF accepted > 0
                   THEN <<(<<filtered_constraints[accepted]>> \o rest),
                          SubSeq(filtered_constraints, 1, accepted - 1)>>
                   ELSE <<rest, filtered_constraints>>
              ELSE IF /\ accepted > 0
                      /\ filtered_constraints[accepted].comparator \in LowerBounds
                      /\ current.comparator \in LowerBounds \cup {"Equal"}
              THEN <<rest, filtered_constraints>>
              ELSE IF /\ accepted > 0
                      /\ filtered_constraints[accepted].comparator \in UpperBounds \cup {"Equal"}
                      /\ current.comparator \in UpperBounds
              THEN <<rest, Append(SubSeq(filtered_constraints, 1, accepted - 1), current)>>
              ELSE <<rest, Append(filtered_constraints, current)>>

\* one iteration of the work-list loop: other_constraints is the list the
\* current element is popped from, filtered_constraints the accepted output
WorkListStep(other_constraints, filtered_constraints) ==
    LET current == Head(other_constraints)
        rest == Tail(other_constraints)
        accepted == Len(filtered_constraints)
    IN  IF rest = <<>>
        THEN <<rest, Append(filtered_constraints, current)>>
        ELSE
          LET next == Head(rest)
          IN  IF /\ current.comparator \in LowerBounds
                 /\ next.comparator \in LowerBounds \cup {"Equal"}
              THEN \* discard next, push current back
                   <<(<<current>> \o Tail(rest)), filtered_constraints>>
              ELSE IF /\ current.comparator \in UpperBounds \cup {"Equal"}
                      /\ next.comparator \in UpperBounds
              THEN \* discard current, the previous one becomes current
                   IF accepted > 0
                   THEN <<(<<filtered_constraints[accepted]>> \o rest),
                          SubSeq(filtered_constraints, 1, accepted - 1)>>
                   ELSE <<rest, filtered_constraints>>
              ELSE IF /\ accepted > 0
                      /\ filtered_constraints[accepted].comparator \in LowerBounds
                      /\ current.comparator \in LowerBounds \cup {"Equal"}
              THEN \* discard current
                   <<rest, filtered_constraints>>
              ELSE IF /\ accepted > 0
                      /\ filtered_constraints[accepted].comparator \in UpperBounds \cup {"Equal"}
                      /\ current.comparator \in UpperBounds
              THEN \* discard previous, keep current
                   <<rest, Append(SubSeq(filtered_constraints, 1, accepted - 1), current)>>
              ELSE <<rest, Append(filtered_constraints, current)>>

RECURSIVE WorkListLoop(_, _)
WorkListLoop(other_constraints, filtered_constraints) ==
    IF other_constraints = <<>> THEN filtered_constraints
    ELSE LET st == WorkListStep(other_constraints, filtered_constraints)
         IN  WorkListLoop(st[1], st[2])

\* first check of the filtered sequence: "=" is followed by "=", ">" or ">="
EqualFollowedOk(current, next) ==
    ~(current = "Equal" /\ next \notin {"Equal", "GreaterThan", "GreaterThanOrEqual"})

\* second check, "=" left out: the two families of bounds alternate
AlternationOk(current, next) ==
    /\ current \in UpperBounds => next \in LowerBounds
    /\ current \in LowerBounds => next \in UpperBounds

\* index of the first adjacent pair that fails its check, 0 if none;
\* pairOk[i] tells whether the pair at i and i + 1 passes
FirstBadPair(pairOk) ==
    IF \E i \in 1..Len(pairOk) : ~pairOk[i]
    THEN CHOOSE i \in 1..Len(pairOk) : ~pairOk[i] /\ \A j \in 1..(i - 1) : pairOk[j]
    ELSE 0

\* the result of the call and the constraints the range holds after it
Normalized(res, constraints) == [result |-> res, constraints |-> constraints]

\* ReduceAndValidate whose final merge leaves out the "!=" constraints
ReduceAndValidateWithoutUnequal(other_constraints, unequal_constraints) ==
    LET filtered_constraints == WorkListLoop(other_constraints, <<>>)
        comparators ==
            [i \in 1..Len(filtered_constraints) |-> filtered_constraints[i].comparator]
        bounds == SelectSeq(comparators, LAMBDA c : c # "Equal")
        badEqual == FirstBadPair([i \in 1..(Len(comparators) - 1) |->
                                     EqualFollowedOk(comparators[i], comparators[i + 1])])
        badBound == FirstBadPair([i \in 1..(Len(bounds) - 1) |->
                                     AlternationOk(bounds[i], bounds[i + 1])])
    IN  IF badEqual # 0
        THEN Normalized(
               Err("InvalidRange", "must not be followed (ignoring !=)", <<>>,
                   comparators[badEqual], comparators[badEqual + 1]),
               <<>>)
        ELSE IF badBound # 0
        THEN Normalized(
               Err("InvalidRange", "must not be followed (ignoring != and =)", <<>>,
                   bounds[badBound], bounds[badBound + 1]),
               <<>>)
        ELSE Normalized(OkUnit, SortByVersion(filtered_constraints))

\* the redundancy pass over the other constraints, the two checks of its
\* output, and the final merge with the "!=" constraints
ReduceAndValidate(other_constraints, unequal_constraints) ==
    LET filtered_constraints == WorkListLoop(other_constraints, <<>>)
        comparators ==
            [i \in 1..Len(filtered_constraints) |-> filtered_constraints[i].comparator]
        bounds == SelectSeq(comparators, LAMBDA c : c # "Equal")
        badEqual == FirstBadPair([i \in 1..(Len(comparators) - 1) |->
                                     EqualFollowedOk(comparators[i], comparators[i + 1])])
        badBound == FirstBadPair([i \in 1..(Len(bounds) - 1) |->
                                     AlternationOk(bounds[i], bounds[i + 1])])
    IN  IF badEqual # 0
        THEN Normalized(
               Err("InvalidRange", "must not be followed (ignoring !=)", <<>>,
                   comparators[badEqual], comparators[badEqual + 1]),
               <<>>)
        ELSE IF badBound # 0
        THEN Normalized(
               Err("InvalidRange", "must not be followed (ignoring != and =)", <<>>,
                   bounds[badBound], bounds[badBound + 1]),
               <<>>)
        ELSE Normalized(OkUnit, SortByVersion(filtered_constraints \o unequal_constraints))

\* SplitAndReduce with the test of its early return inverted
SplitAndReduceInverted(sorted) ==
    LET unequal_constraints == SelectSeq(sorted, LAMBDA c : c.comparator = "NotEqual")
        other_constraints == SelectSeq(sorted, LAMBDA c : c.comparator # "NotEqual")
    IN  IF other_constraints # <<>>
        THEN Normalized(OkUnit, sorted)
        ELSE ReduceAndValidate(other_constraints, unequal_constraints)

\* the split of the sorted, duplicate-free constraints into the "!="
\* constraints and the others, and the early return when all are "!="
SplitAndReduce(sorted) ==
    LET unequal_constraints == SelectSeq(sorted, LAMBDA c : c.comparator = "NotEqual")
        other_constraints == SelectSeq(sorted, LAMBDA c : c.comparator # "NotEqual")
    IN  IF other_constraints = <<>>
        THEN Normalized(OkUnit, unequal_constraints)
        ELSE ReduceAndValidate(other_constraints, unequal_constraints)

\* HasStar looking at the first constraint only
HasStarAtFront(constraints) ==
    constraints # <<>> /\ constraints[1].comparator = "Any"

\* self.constraints.iter().any(|c| c.comparator == Any)
HasStar(constraints) ==
    \E i \in 1..Len(constraints) : constraints[i].comparator = "Any"

\* NormalizeAndValidate that takes two constraints, as it takes one, to
\* need no further validation
NormalizeAndValidateUpToTwo(constraints) ==
    IF constraints = <<>>
    THEN Normalized(Err("EmptyConstraints", "", <<>>, "", ""), constraints)
    ELSE IF HasStar(constraints) /\ Len(constraints) > 1
    THEN Normalized(Err("InvalidRange", "Star constraint must be used alone", <<>>, "", ""),
                    constraints)
    ELSE IF Len(constraints) <= 2
    THEN Normalized(OkUnit, constraints)
    ELSE
      LET sorted == SortByVersion(constraints)
          dup == FirstDuplicate(sorted)
      IN  IF dup # 0
          THEN Normalized(Err("DuplicateVersion", "", VersionToString(sorted[dup].version), "", ""),
                          sorted)
          ELSE SplitAndReduce(sorted)

\* NormalizeAndValidate without the sort that precedes the duplicate check
NormalizeAndValidateWithoutFirstSort(constraints) ==
    IF constraints = <<>>
    THEN Normalized(Err("EmptyConstraints", "", <<>>, "", ""), constraints)
    ELSE IF HasStar(constraints) /\ Len(constraints) > 1
    THEN Normalized(Err("InvalidRange", "Star constraint must be used alone", <<>>, "", ""),
                    constraints)
    ELSE IF Len(constraints) = 1
    THEN Normalized(OkUnit, constraints)
    ELSE
      LET dup == FirstDuplicate(constraints)
      IN  IF dup # 0
          THEN Normalized(Err("DuplicateVersion", "", VersionToString(constraints[dup].version), "", ""),
                          constraints)
          ELSE SplitAndReduce(constraints)

\* NormalizeAndValidate that looks for duplicate versions among the
\* constraints as given and sorts them afterwards
NormalizeAndValidateDuplicatesBeforeSort(constraints) ==
    IF constraints = <<>>
    THEN Normalized(Err("EmptyConstraints", "", <<>>, "", ""), constraints)
    ELSE IF HasStar(constraints) /\ Len(constraints) > 1
    THEN Normalized(Err("InvalidRange", "Star constraint must be used alone", <<>>, "", ""),
                    constraints)
    ELSE IF Len(constraints) = 1
    THEN Normalized(OkUnit, constraints)
    ELSE
      LET sorted == SortByVersion(constraints)
          dup == FirstDuplicate(constraints)
      IN  IF dup # 0
          THEN Normalized(Err("DuplicateVersion", "", VersionToString(constraints[dup].version), "", ""),
                          sorted)
          ELSE SplitAndReduce(sorted)

NormalizeAndValidate(constraints) ==
    IF constraints = <<>>
    THEN Normalized(Err("EmptyConstraints", "", <<>>, "", ""), constraints)
    ELSE IF HasStar(constraints) /\ Len(constraints) > 1
    THEN Normalized(Err("InvalidRange", "Star constraint must be used alone", <<>>, "", ""),
                    constraints)
    ELSE IF Len(constraints) = 1
    THEN Normalized(OkUnit, constraints)
    ELSE
      LET sorted == SortByVersion(constraints)
          dup == FirstDuplicate(sorted)
      IN  IF dup # 0
          THEN Normalized(Err("DuplicateVersion", "", VersionToString(sorted[dup].version), "", ""),
                          sorted)
          ELSE SplitAndReduce(sorted)

(***************************************************************************)
(* VersionRange::contains                                                  *)
(***************************************************************************)
\* ExactMatch without the arm for "!="
RECURSIVE ExactMatchWithoutNotEqual(_, _)
ExactMatchWithoutNotEqual(constraints, version) ==
    IF constraints = <<>> THEN "none"
    ELSE LET constraint == Head(constraints)
         IN  IF /\ constraint.comparator \in {"Equal", "GreaterThanOrEqual", "LessThanOrEqual"}
                /\ version = constraint.version
             THEN "true"
             ELSE ExactMatchWithoutNotEqual(Tail(constraints), version)

\* the scan for exact matches: the first constraint that decides, in
\* sequence order, gives the answer; "none" when no constraint decides
RECURSIVE ExactMatch(_, _)
ExactMatch(constraints, version) ==
    IF constraints = <<>> THEN "none"
    ELSE LET constraint == Head(constraints)
         IN  IF /\ constraint.comparator \in {"Equal", "GreaterThanOrEqual", "LessThanOrEqual"}
                /\ version = constraint.version
             THEN "true"
             ELSE IF constraint.comparator = "NotEqual" /\ version = constraint.version
             THEN "false"
             ELSE ExactMatch(Tail(constraints), version)

\* InSomeInterval without the test of the last bound constraint
InSomeIntervalWithoutTail(bounds, version) ==
    \E i \in 1..Len(bounds) :
        \/ /\ i = 1
           /\ bounds[i].comparator \in UpperBounds
           /\ version < bounds[i].version
        \/ /\ i < Len(bounds)
           /\ bounds[i].comparator \in LowerBounds
           /\ version > bounds[i].version
           /\ bounds[i + 1].comparator \in UpperBounds
           /\ version < bounds[i + 1].version

\* InSomeInterval with the upper end of an interval taken as part of it
InSomeIntervalClosed(bounds, version) ==
    \E i \in 1..Len(bounds) :
        \/ /\ i = 1
           /\ bounds[i].comparator \in UpperBounds
           /\ version <= bounds[i].version
        \/ /\ i = Len(bounds)
           /\ bounds[i].comparator \in LowerBounds
           /\ version > bounds[i].version
        \/ /\ i < Len(bounds)
           /\ bounds[i].comparator \in LowerBounds
           /\ version > bounds[i].version
           /\ bounds[i + 1].comparator \in UpperBounds
           /\ version <= bounds[i + 1].version

\* the loop over the bound constraints returns true at the first position
\* where one of its three tests succeeds
InSomeInterval(bounds, version) ==
    \E i \in 1..Len(bounds) :
        \/ /\ i = 1
           /\ bounds[i].comparator \in UpperBounds
           /\ version < bounds[i].version
        \/ /\ i = Len(bounds)
           /\ bounds[i].comparator \in LowerBounds
           /\ version > bounds[i].version
        \/ /\ i < Len(bounds)
           /\ bounds[i].comparator \in LowerBounds
           /\ version > bounds[i].version
           /\ bounds[i + 1].comparator \in UpperBounds
           /\ version < bounds[i + 1].version

\* Contains without the answer for the lone star
ContainsWithoutStar(constraints, version) ==
    IF ExactMatch(constraints, version) # "none"
    THEN ExactMatch(constraints, version) = "true"
    ELSE IF \A i \in 1..Len(constraints) : constraints[i].comparator = "NotEqual"
    THEN TRUE
    ELSE InSomeInterval(
            SelectSeq(constraints, LAMBDA c : c.comparator \in UpperBounds \cup LowerBounds),
            version)

\* Contains with the intervals tested before the scan for exact matches
ContainsIntervalsFirst(constraints, version) ==
    IF Len(constraints) = 1 /\ constraints[1].comparator = "Any"
    THEN TRUE
    ELSE IF InSomeInterval(
            SelectSeq(constraints, LAMBDA c : c.comparator \in UpperBounds \cup LowerBounds),
            version)
    THEN TRUE
    ELSE IF ExactMatch(constraints, version) # "none"
    THEN ExactMatch(constraints, version) = "true"
    ELSE \A i \in 1..Len(constraints) : constraints[i].comparator = "NotEqual"

Contains(constraints, version) ==
    IF Len(constraints) = 1 /\ constraints[1].comparator = "Any"
    THEN TRUE
    ELSE IF ExactMatch(constraints, version) # "none"
    THEN ExactMatch(constraints, version) = "true"
    ELSE IF \A i \in 1..Len(constraints) : constraints[i].comparator = "NotEqual"
    THEN TRUE
    ELSE InSomeInterval(
            SelectSeq(constraints, LAMBDA c : c.comparator \in UpperBounds \cup LowerBounds),
            version)

(***************************************************************************)
(* FromStr for VersionRange                                                *)
(***************************************************************************)
\* the constraints parsed in order, or the error of the first token that fails
RECURSIVE ParseConstraints(_)
ParseConstraints(constraint_strs) ==
    IF constraint_strs = <<>> THEN OkValue(<<>>)
    ELSE LET constraint == VersionConstraintParse(Head(constraint_strs))
         IN  IF ~constraint.ok THEN constraint
             ELSE LET others == ParseConstraints(Tail(constraint_strs))
                  IN  IF ~others.ok THEN others
                      ELSE OkValue(<<constraint.value>> \o others.value)

\* from_str up to the range it builds: the range, and whether it is
\* returned as it is (the lone `*`) or normalized first
Built(r, returned) == [ok |-> TRUE, value |-> r, returned |-> returned]

\* RangeBuilt without the filter that drops the empty segments
RangeBuiltKeepsEmptyTokens(s0) ==
    LET s == StripWhitespace(s0)
        parts == SplitN2(s, ":")
    IN  IF Len(parts) # 2 THEN Err("InvalidScheme", "", <<>>, "", "")
        ELSE IF parts[1] # <<"v", "e", "r", "s">> THEN Err("InvalidScheme", "", <<>>, "", "")
        ELSE
          LET specifier_parts == SplitN2(parts[2], "/")
          IN  IF Len(specifier_parts) # 2
              THEN Err("MissingVersioningScheme", "", <<>>, "", "")
              ELSE
                LET versioning_scheme == ToLowercase(specifier_parts[1])
                    constraints_str == Trim(specifier_parts[2])
                IN  IF versioning_scheme = <<>>
                    THEN Err("InvalidVersioningScheme", "", versioning_scheme, "", "")
                    ELSE IF constraints_str = <<>>
                    THEN Err("EmptyConstraints", "", <<>>, "", "")
                    ELSE IF constraints_str = <<"*">>
                    THEN Built(VersionRangeNew(versioning_scheme,
                                 <<VersionConstraintNew("Any", VersionDefault)>>), TRUE)
                    ELSE
                      LET constraint_strs ==
                            Split(TrimMatches(constraints_str, "|"), "|")
                      IN  IF constraint_strs = <<>>
                          THEN Err("EmptyConstraints", "", <<>>, "", "")
                          ELSE
                            LET constraints == ParseConstraints(constraint_strs)
                            IN  IF ~constraints.ok THEN constraints
                                ELSE Built(VersionRangeNew(versioning_scheme,
                                                           constraints.value), FALSE)

RangeBuilt(s0) ==
    LET s == StripWhitespace(s0)
        parts == SplitN2(s, ":")
    IN  IF Len(parts) # 2 THEN Err("InvalidScheme", "", <<>>, "", "")
        ELSE IF parts[1] # <<"v", "e", "r", "s">> THEN Err("InvalidScheme", "", <<>>, "", "")
        ELSE
          LET specifier_parts == SplitN2(parts[2], "/")
          IN  IF Len(specifier_parts) # 2
              THEN Err("MissingVersioningScheme", "", <<>>, "", "")
              ELSE
                LET versioning_scheme == ToLowercase(specifier_parts[1])
                    constraints_str == Trim(specifier_parts[2])
                IN  IF versioning_scheme = <<>>
                    THEN Err("InvalidVersioningScheme", "", versioning_scheme, "", "")
                    ELSE IF constraints_str = <<>>
                    THEN Err("EmptyConstraints", "", <<>>, "", "")
                    ELSE IF constraints_str = <<"*">>
                    THEN Built(VersionRangeNew(versioning_scheme,
                                 <<VersionConstraintNew("Any", VersionDefault)>>), TRUE)
                    ELSE
                      LET constraint_strs ==
                            SelectSeq(Split(TrimMatches(constraints_str, "|"), "|"),
                                      LAMBDA t : t # <<>>)
                      IN  IF constraint_strs = <<>>
                          THEN Err("EmptyConstraints", "", <<>>, "", "")
                          ELSE
                            LET constraints == ParseConstraints(constraint_strs)
                            IN  IF ~constraints.ok THEN constraints
                                ELSE Built(VersionRangeNew(versioning_scheme,
                                                           constraints.value), FALSE)

\* the range of RangeBuilt, normalized and validated unless it is the lone `*`
Finished(built) ==
    IF ~built.ok THEN built
    ELSE IF built.returned THEN OkValue(built.value)
    ELSE LET n == NormalizeAndValidate(built.value.constraints)
         IN  IF ~n.result.ok THEN n.result
             ELSE OkValue([built.value EXCEPT !.constraints = n.constraints])

FromStr(s) == Finished(RangeBuilt(s))

(***************************************************************************)
(* DynamicVersionRange (src/src/range/dynamic.rs): the parser that reads   *)
(* the scheme name first and hands the text to the parser of that scheme.  *)
(***************************************************************************)
\* ExtractVersioningScheme that keeps the letter case of the name
ExtractVersioningSchemeAsWritten(s0) ==
    LET s == StripWhitespace(s0)
        parts == SplitN2(s, ":")
    IN  IF Len(parts) # 2 THEN Err("InvalidScheme", "", <<>>, "", "")
        ELSE IF parts[1] # <<"v", "e", "r", "s">> THEN Err("InvalidScheme", "", <<>>, "", "")
        ELSE
          LET specifier_parts == SplitN2(parts[2], "/")
          IN  IF Len(specifier_parts) # 2
              THEN Err("MissingVersioningScheme", "", <<>>, "", "")
              ELSE
                LET versioning_scheme == specifier_parts[1]
                IN  IF versioning_scheme = <<>>
                    THEN Err("MissingVersioningScheme", "", <<>>, "", "")
                    ELSE OkValue(versioning_scheme)

ExtractVersioningScheme(s0) ==
    LET s == StripWhitespace(s0)
        parts == SplitN2(s, ":")
    IN  IF Len(parts) # 2 THEN Err("InvalidScheme", "", <<>>, "", "")
        ELSE IF parts[1] # <<"v", "e", "r", "s">> THEN Err("InvalidScheme", "", <<>>, "", "")
        ELSE
          LET specifier_parts == SplitN2(parts[2], "/")
          IN  IF Len(specifier_parts) # 2
              THEN Err("MissingVersioningScheme", "", <<>>, "", "")
              ELSE
                LET versioning_scheme == ToLowercase(specifier_parts[1])
                IN  IF versioning_scheme = <<>>
                    THEN Err("MissingVersioningScheme", "", <<>>, "", "")
                    ELSE OkValue(versioning_scheme)

\* "semver" | "npm"
SupportedSchemes == {<<"s", "e", "m", "v", "e", "r">>, <<"n", "p", "m">>}

\* FromStr for DynamicVersionRange
DynamicFromStr(s) ==
    LET versioning_scheme == ExtractVersioningScheme(s)
    IN  IF ~versioning_scheme.ok THEN versioning_scheme
        ELSE IF versioning_scheme.value \in SupportedSchemes
        THEN FromStr(s)
        ELSE Err("UnsupportedVersioningScheme", "", versioning_scheme.value, "", "")

(***************************************************************************)
(* Display for VersionRange                                                *)
(***************************************************************************)
\* DisplayRest that prints the comparator of "=" like any other
RECURSIVE DisplayRestWithEquals(_)
DisplayRestWithEquals(constraints) ==
    IF constraints = <<>> THEN <<>>
    ELSE LET constraint == Head(constraints)
         IN  <<"|">> \o ComparatorToString(constraint.comparator)
                     \o VersionToString(constraint.version)
                     \o DisplayRestWithEquals(Tail(constraints))

RECURSIVE DisplayRest(_)
DisplayRest(constraints) ==
    IF constraints = <<>> THEN <<>>
    ELSE LET constraint == Head(constraints)
         IN  (IF constraint.comparator = "Equal"
              THEN <<"|">> \o VersionToString(constraint.version)
              ELSE <<"|">> \o ComparatorToString(constraint.comparator)
                          \o VersionToString(constraint.version))
             \o DisplayRest(Tail(constraints))

Display(r) ==
    <<"v", "e", "r", "s", ":">> \o r.versioning_scheme \o <<"/">>
    \o (CASE r.constraints[1].comparator = "Any" -> <<"*">>
          [] r.constraints[1].comparator = "Equal" -> VersionToString(r.constraints[1].version)
          [] OTHER -> ComparatorToString(r.constraints[1].comparator)
                      \o VersionToString(r.constraints[1].version))
    \o DisplayRest(Tail(r.constraints))

(***************************************************************************)
(* The inputs of the model.                                                *)
(***************************************************************************)
\* the constraints an input list is made of: every comparator on every
\* constraint version, and the star constraint as the parser builds it
InputConstraints ==
    {VersionConstraintNew(c, v) : c \in Comparator \ {"Any"}, v \in ConstraintVersions}
    \cup {VersionConstraintNew("Any", VersionDefault)}

\* one constraint as a specifier writes it: `*`, a bare version for "=",
\* else the comparator and the version
ConstraintText(c) ==
    IF c.comparator = "Any" THEN <<"*">>
    ELSE IF c.comparator = "Equal" THEN VersionToString(c.version)
    ELSE ComparatorToString(c.comparator) \o VersionToString(c.version)

RECURSIVE JoinConstraints(_)
JoinConstraints(cs) ==
    IF cs = <<>> THEN <<>>
    ELSE IF Len(cs) = 1 THEN ConstraintText(cs[1])
    ELSE ConstraintText(cs[1]) \o <<"|">> \o JoinConstraints(Tail(cs))

SchemeName == <<"n", "p", "m">>

\* vers:<versioning-scheme>/<version-constraint>|<version-constraint>|...
Specifier(scheme, cs) ==
    <<"v", "e", "r", "s", ":">> \o scheme \o <<"/">> \o JoinConstraints(cs)

\* The lists written out as specifiers: every list shorter than MaxLen, and
\* the lists of MaxLen constraints whose versions are pairwise distinct (a
\* repeated version ends the call before the list is worked on).
WrittenList(cs) ==
    \/ Len(cs) < MaxLen
    \/ \A i, j \in 1..Len(cs) : i # j => cs[i].version # cs[j].version

\* the texts written in front of the colon: the tag, nothing, another word,
\* the tag in other letter cases, a prefix of the tag
WrittenTags ==
    {<<"v", "e", "r", "s">>, <<>>, <<"f", "o", "o">>, <<"V", "e", "r", "s">>,
     <<"V", "E", "R", "S">>, <<"v", "e", "r">>}

\* the versioning-scheme names written between the colon and the slash:
\* none, the two the library knows, another one, and names in capitals
WrittenSchemes ==
    {<<>>, SchemeName, <<"N", "P", "M">>, <<"s", "e", "m", "v", "e", "r">>,
     <<"S", "e", "m", "V", "e", "r">>, <<"p", "y", "p", "i">>, <<"P", "y", "P", "I">>}

\* <tag>:<versioning-scheme>/<version-constraint>|...
TaggedSpecifier(tag, scheme, cs) ==
    tag \o <<":">> \o scheme \o <<"/">> \o JoinConstraints(cs)

\* specifiers that are not plain lists: a wrong tag, a missing part, stray
\* delimiters, whitespace, percent-encoded and unparseable versions
OtherSpecifiers ==
    {<<"f", "o", "o", ":", "n", "p", "m", "/", "1">>,
     <<"n", "p", "m", "/", "1">>,
     <<"v", "e", "r", "s">>,
     <<"v", "e", "r", "s", "/", "1">>,
     <<"v", "e", "r", "s", ":", "n", "p", "m">>,
     <<"v", "e", "r", "s", ":", "/", "1">>,
     <<"v", "e", "r", "s", ":", "n", "p", "m", "/">>,
     <<"v", "e", "r", "s", ":", "n", "p", "m", "/", "|">>,
     <<"v", "e", "r", "s", ":", "n", "p", "m", "/", "|", "|", "|">>,
     <<"v", "e", "r", "s", ":", "N", "p", "m", "/", " ", "|", " ", "|", "\t">>,
     <<"v", "e", "r", "s", ":", "n", "p", "m", "/", " ">>,
     <<"v", "e", "r", "s", ":", "N", "P", "M", "/", "1">>,
     <<"V", "e", "r", "s", ":", "n", "p", "m", "/", "1">>,
     <<"v", "e", "r", "s", ":", "n", "p", "m", "/", " ", ">", "=", " ", "1", " ", "|", " ", "<", " ", "3", " ">>,
     <<"v", "e", "r", "s", ":", "n", "p", "m", "/", "|", "1", "|", "|", "3", "|">>,
     <<"v", "e", "r", "s", ":", "n", "p", "m", "/", "%", "3", "1", "|", "<", "%", "3", "3">>,
     <<"v", "e", "r", "s", ":", "n", "p", "m", "/", "%", "2", "5">>,
     <<"v", "e", "r", "s", ":", "n", "p", "m", "/", "%", "9", "9">>,
     <<"v", "e", "r", "s", ":", "n", "p", "m", "/", ">", "=">>,
     <<"v", "e", "r", "s", ":", "n", "p", "m", "/", "0", "1">>,
     <<"v", "e", "r", "s", ":", "n", "p", "m", "/", "*", "|">>,
     <<"v", "e", "r", "s", ":", "n", "p", "m", "/", "x">>,
     <<"v", "e", "r", "s", ":", "n", ":", "p", "/", "1">>,
     <<"v", "e", "r", "s", ":", "n", "p", "m", "/", "\t", "!", "=", " ", "1">>}

(***************************************************************************)
(* The state machine: a caller parses a specifier or constructs a range    *)
(* and normalizes it, then queries it, or prints it and parses the text    *)
(* again.                                                                  *)
(***************************************************************************)
NotCalled == Err("NotCalled", "", <<>>, "", "")

NoRange == VersionRangeNew(<<>>, <<>>)

NoQuery == [version |-> -1, answer |-> FALSE]

NoDynamic == [text |-> <<>>, result |-> NotCalled]

NoPermuted == [constraints |-> <<>>, outcome |-> Normalized(NotCalled, <<>>)]

Init ==
    /\ pc = "start"
    /\ text = <<>>
    /\ given = <<>>
    /\ range = NoRange
    /\ result = NotCalled
    /\ query = NoQuery
    /\ shown = <<>>
    /\ reparsed = NotCalled
    /\ spaced = <<>>
    /\ loop_other = <<>>
    /\ loop_filtered = <<>>
    /\ dynamic = NoDynamic
    /\ permuted = NoPermuted

\* s.parse::<VersionRange<V>>()
Parse(s) ==
    /\ pc = "start"
    /\ text' = s
    /\ \E built \in {RangeBuilt(s)} : \E r \in {Finished(built)} :
           /\ given' = IF built.ok THEN built.value.constraints ELSE <<>>
           /\ IF r.ok
              THEN /\ range' = r.value
                   /\ result' = OkUnit
                   /\ pc' = "ready"
              ELSE /\ range' = range
                   /\ result' = r
                   /\ pc' = "failed"
    /\ UNCHANGED <<query, shown, reparsed, spaced, loop_other, loop_filtered, dynamic, permuted>>

\* VersionRange::new(versioning_scheme, constraints)
New(versioning_scheme, constraints) ==
    /\ pc = "start"
    /\ given' = constraints
    /\ range' = VersionRangeNew(versioning_scheme, constraints)
    /\ pc' = "constructed"
    /\ UNCHANGED <<text, result, query, shown, reparsed, spaced, loop_other, loop_filtered, dynamic, permuted>>

\* range.normalize_and_validate(), on a new range or again on a valid one
Normalize ==
    /\ pc \in {"constructed", "ready"}
    /\ \E n \in {NormalizeAndValidate(range.constraints)} :
           /\ range' = [range EXCEPT !.constraints = n.constraints]
           /\ result' = n.result
           /\ pc' = IF ~n.result.ok THEN "failed"
                    ELSE IF pc = "ready" THEN "renormalized" ELSE "ready"
    /\ UNCHANGED <<text, given, query, shown, reparsed, spaced, loop_other, loop_filtered, dynamic, permuted>>

\* range.contains(&version)
Query(version) ==
    /\ pc = "ready"
    /\ query' = [version |-> version, answer |-> Contains(range.constraints, version)]
    /\ pc' = "queried"
    /\ UNCHANGED <<text, given, range, result, shown, reparsed, spaced, loop_other, loop_filtered, dynamic, permuted>>

\* range.to_string()
Show ==
    /\ pc = "ready"
    /\ shown' = Display(range)
    /\ pc' = "shown"
    /\ UNCHANGED <<text, given, range, result, query, reparsed, spaced, loop_other, loop_filtered, dynamic, permuted>>

\* range.to_string().parse::<VersionRange<V>>()
Reparse ==
    /\ pc = "shown"
    /\ reparsed' = FromStr(shown)
    /\ pc' = "reparsed"
    /\ UNCHANGED <<text, given, range, result, query, shown, spaced, loop_other, loop_filtered, dynamic, permuted>>

\* the specifier parsed before, written with one more space or tab after
\* its first `at` characters, is parsed: a second call of from_str (on the
\* specifiers of at most MaxLen - 2 constraints, the malformed ones included)
ParseSpaced(at, ch) ==
    /\ pc \in {"ready", "failed"}
    /\ text # <<>>
    /\ Len(given) <= MaxLen - 2
    /\ spaced' = SubSeq(text, 1, at) \o <<ch>> \o SubSeq(text, at + 1, Len(text))
    /\ reparsed' = FromStr(spaced')
    /\ pc' = "respaced"
    /\ UNCHANGED <<text, given, range, result, query, shown, loop_other, loop_filtered, dynamic, permuted>>

\* s.parse::<DynamicVersionRange>()
ParseDynamic(s) ==
    /\ pc = "start"
    /\ dynamic' = [text |-> s, result |-> DynamicFromStr(s)]
    /\ pc' = "dispatched"
    /\ UNCHANGED <<text, given, range, result, query, shown, reparsed, spaced,
                   loop_other, loop_filtered, permuted>>

Next ==
    \/ pc = "start" /\ \E n \in 1..MaxLen : \E cs \in [1..n -> InputConstraints] :
                          WrittenList(cs) /\ Parse(Specifier(SchemeName, cs))
    \/ pc = "start" /\ \E s \in OtherSpecifiers : Parse(s)
    \/ pc = "start" /\ \E tag \in WrittenTags, scheme \in WrittenSchemes, c \in InputConstraints :
                          Parse(TaggedSpecifier(tag, scheme, <<c>>))
    \/ pc = "start" /\ \E n \in 0..MaxLen : \E cs \in [1..n -> InputConstraints] :
                          New(SchemeName, cs)
    \/ pc = "start" /\ \E tag \in WrittenTags, scheme \in WrittenSchemes, c \in InputConstraints :
                          ParseDynamic(TaggedSpecifier(tag, scheme, <<c>>))
    \/ pc = "start" /\ \E s \in OtherSpecifiers : ParseDynamic(s)
    \/ Normalize
    \/ \E v \in QueryVersions : Query(v)
    \/ Show
    \/ Reparse
    \/ \E at \in 0..Len(text), ch \in Whitespace : ParseSpaced(at, ch)

Spec == Init /\ [][Next]_vars

(***************************************************************************)
(* Normalization of constructed ranges, repeated and reordered: a range is *)
(* constructed and normalized; then it is normalized once more, or a       *)
(* second range is constructed from the same constraints with two          *)
(* neighbours exchanged and normalized as well.                            *)
(***************************************************************************)
\* the constraints of a new range listed in another order: the two at
\* positions i and i + 1 exchanged
Exchanged(constraints, i) ==
    [k \in 1..Len(constraints) |->
        IF k = i THEN constraints[i + 1]
        ELSE IF k = i + 1 THEN constraints[i]
        ELSE constraints[k]]

\* VersionRange::new on the same constraints in another order, followed by
\* normalize_and_validate on that second range
NormalizeReordered(i) ==
    /\ pc \in {"ready", "failed"}
    /\ text = <<>>
    /\ permuted' = [constraints |-> Exchanged(given, i),
                    outcome |-> NormalizeAndValidate(Exchanged(given, i))]
    /\ pc' = "reordered"
    /\ UNCHANGED <<text, given, range, result, query, shown, reparsed, spaced,
                   loop_other, loop_filtered, dynamic>>

ReorderNext ==
    \/ pc = "start" /\ \E n \in 0..MaxLen : \E cs \in [1..n -> InputConstraints] :
                          New(SchemeName, cs)
    \/ Normalize
    \/ \E i \in 1..(Len(given) - 1) : NormalizeReordered(i)

ReorderSpec == Init /\ [][ReorderNext]_vars

(***************************************************************************)
(* The work-list loop of normalize_and_validate (range.rs:122-177), one    *)
(* iteration at a time.  The loop is entered with the constraints that are *)
(* not "!=", sorted by version and free of duplicates and of `*`, and with *)
(* an empty output; `given` keeps the list the loop was entered with.      *)
(***************************************************************************)
\* what other_constraints can hold when the loop is entered
IsWorkList(cs) ==
    /\ \A i \in 1..Len(cs) : cs[i].comparator \in LowerBounds \cup UpperBounds \cup {"Equal"}
    /\ \A i \in 1..(Len(cs) - 1) : cs[i].version < cs[i + 1].version

\* let mut filtered_constraints = Vec::new(), in front of the loop
EnterLoop(cs) ==
    /\ pc = "start"
    /\ IsWorkList(cs)
    /\ given' = cs
    /\ loop_other' = cs
    /\ loop_filtered' = <<>>
    /\ pc' = "loop"
    /\ UNCHANGED <<text, range, result, query, shown, reparsed, spaced, dynamic, permuted>>

\* while let Some(current) = other_constraints.pop_front() { ... }
LoopIteration ==
    /\ pc = "loop"
    /\ loop_other # <<>>
    /\ loop_other' = WorkListStep(loop_other, loop_filtered)[1]
    /\ loop_filtered' = WorkListStep(loop_other, loop_filtered)[2]
    /\ UNCHANGED <<pc, text, given, range, result, query, shown, reparsed, spaced, dynamic, permuted>>

\* pop_front() returns None: the loop is left
LeaveLoop ==
    /\ pc = "loop"
    /\ loop_other = <<>>
    /\ pc' = "looped"
    /\ UNCHANGED <<text, given, range, result, query, shown, reparsed, spaced,
                   loop_other, loop_filtered, dynamic, permuted>>

LoopNext ==
    \/ pc = "start" /\ \E n \in 1..MaxLen : \E cs \in [1..n -> InputConstraints] : EnterLoop(cs)
    \/ LoopIteration
    \/ LeaveLoop

\* the thread that runs the loop keeps running it
LoopSpec ==
    Init /\ [][LoopNext]_vars /\ WF_vars(LoopIteration) /\ WF_vars(LeaveLoop)

(***************************************************************************)
(* Properties.                                                             *)
(***************************************************************************)
\* a call of from_str or of normalize_and_validate has returned and no
\* other operation has followed it
Called == pc \in {"ready", "failed", "renormalized"}

\* the range comes from from_str (text is the specifier parsed)
Parsed == Called /\ text # <<>>

GE(v) == VersionConstraintNew("GreaterThanOrEqual", v)
GT(v) == VersionConstraintNew("GreaterThan", v)
LE(v) == VersionConstraintNew("LessThanOrEqual", v)
LT(v) == VersionConstraintNew("LessThan", v)
EQ(v) == VersionConstraintNew("Equal", v)
NE(v) == VersionConstraintNew("NotEqual", v)

\* the specifier parsed is the plain list of the two constraints c and d
ParsedPair(c, d) ==
    /\ text # <<>>
    /\ given = <<c, d>>
    /\ text = Specifier(SchemeName, given)

\* C1: for versions a < b, the range parsed from `vers:<scheme>/>=a|<b`
\* contains a version v exactly when a <= v and v < b.
C1_HalfOpenInterval ==
    (/\ pc = "queried"
     /\ Len(given) = 2
     /\ given[1].version < given[2].version
     /\ ParsedPair(GE(given[1].version), LT(given[2].version)))
    => (query.answer <=> (given[1].version <= query.version /\ query.version < given[2].version))

\* C1 witness: `>=1|<5` was parsed and asked for 3, a version strictly
\* between the two, and answered true
C1_Witness ==
    /\ pc = "queried"
    /\ text = Specifier(SchemeName, <<GE(1), LT(5)>>)
    /\ query = [version |-> 3, answer |-> TRUE]

StarFree(cs) == \A i \in 1..Len(cs) : cs[i].comparator # "Any"

Repeated(cs) == {cs[i].version : i \in {k \in 1..Len(cs) : \E j \in 1..Len(cs) : j # k /\ cs[j].version = cs[k].version}}

\* C2: on a star-free list of two or more constraints, two of which carry
\* equal versions (whatever their comparators), normalize_and_validate, and
\* so from_str, fails with DuplicateVersion carrying the text of a version
\* that the list repeats; it never returns Ok.
C2_DuplicateVersion ==
    (Called /\ Len(given) >= 2 /\ StarFree(given) /\ Repeated(given) # {})
    => /\ ~result.ok
       /\ result.kind = "DuplicateVersion"
       /\ \E v \in Repeated(given) : result.detail = VersionToString(v)

\* C2 witness: a constructed list whose first and last constraint repeat a
\* version, with differing comparators and another version in between
C2_Witness ==
    /\ pc = "failed"
    /\ text = <<>>
    /\ given = <<NE(3), LT(1), GE(3)>>
    /\ result.kind = "DuplicateVersion"

\* C3: for versions a < b, `a|<b` parses to the single constraint `<b`,
\* `>a|>b` to `>a`, and `<a|<b` to `<b`.
C3_RedundancyCollapse ==
    (Called /\ Len(given) = 2 /\ given[1].version < given[2].version)
    => LET a == given[1].version
           b == given[2].version
       IN  /\ ParsedPair(EQ(a), LT(b)) => (result.ok /\ range.constraints = <<LT(b)>>)
           /\ ParsedPair(GT(a), GT(b)) => (result.ok /\ range.constraints = <<GT(a)>>)
           /\ ParsedPair(LT(a), LT(b)) => (result.ok /\ range.constraints = <<LT(b)>>)

\* C3 witness: `>1|>3` was parsed and printed as `vers:npm/>1`
C3_Witness ==
    /\ pc = "shown"
    /\ text = Specifier(SchemeName, <<GT(1), GT(3)>>)
    /\ shown = Specifier(SchemeName, <<GT(1)>>)

\* the range is one that from_str returned or that normalize_and_validate
\* answered Ok on
Validated == Called /\ result.ok

Star == VersionConstraintNew("Any", VersionDefault)

BoundsOf(cs) == SelectSeq(cs, LAMBDA c : c.comparator \in UpperBounds \cup LowerBounds)

\* C4: after normalize_and_validate returned Ok, the bound constraints, read
\* in sequence order with "=" and "!=" left out, alternate strictly between
\* the family of "<", "<=" and the family of ">", ">=".
C4_BoundsAlternate ==
    Validated =>
        LET b == BoundsOf(range.constraints)
        IN  \A i \in 1..(Len(b) - 1) :
                /\ b[i].comparator \in UpperBounds => b[i + 1].comparator \in LowerBounds
                /\ b[i].comparator \in LowerBounds => b[i + 1].comparator \in UpperBounds

\* C4 witness: three bounds given out of order, two of them lower bounds in
\* a row once sorted, were normalized to a lower and an upper bound
C4_Witness ==
    /\ pc = "ready"
    /\ given = <<LT(5), GE(3), GT(1)>>
    /\ range.constraints = <<GT(1), LT(5)>>

\* C5: after normalize_and_validate returned Ok, with the "!=" constraints
\* left out, every "=" constraint is immediately followed by an "=", ">" or
\* ">=" constraint, or by nothing.
C5_EqualFollowedByLowerBound ==
    Validated =>
        LET o == SelectSeq(range.constraints, LAMBDA c : c.comparator # "NotEqual")
        IN  \A i \in 1..(Len(o) - 1) :
                o[i].comparator = "Equal"
                => o[i + 1].comparator \in {"Equal", "GreaterThan", "GreaterThanOrEqual"}

\* C5 witness: an "=" constraint survives, followed past a "!=" constraint
\* by a ">=" constraint
C5_Witness ==
    /\ pc = "ready"
    /\ given = <<GE(5), EQ(1), NE(3)>>
    /\ range.constraints = <<EQ(1), NE(3), GE(5)>>

\* C6: after normalize_and_validate returned Ok, the whole constraint
\* sequence, the "!=" constraints included, is non-empty and sorted
\* ascending by version.
C6_SortedNonEmpty ==
    Validated =>
        /\ range.constraints # <<>>
        /\ \A i \in 1..(Len(range.constraints) - 1) :
              range.constraints[i].version <= range.constraints[i + 1].version

\* C6 witness: a "!=" constraint given between two bounds in descending
\* order is merged back between them in ascending order
C6_Witness ==
    /\ pc = "ready"
    /\ given = <<LT(5), NE(3), GE(1)>>
    /\ range.constraints = <<GE(1), NE(3), LT(5)>>

\* C7: parsing a specifier that lists `*` together with another constraint
\* (all of them parseable) fails with InvalidRange, and no range returned
\* holds an Any constraint next to another constraint.
C7_StarAlone ==
    /\ (Parsed /\ Len(given) >= 2 /\ ~StarFree(given))
       => (~result.ok /\ result.kind = "InvalidRange")
    /\ Validated => (Len(range.constraints) > 1 => StarFree(range.constraints))

\* C7 witness: `1|*` was parsed and failed with InvalidRange
C7_Witness ==
    /\ pc = "failed"
    /\ text = Specifier(SchemeName, <<EQ(1), Star>>)
    /\ given = <<EQ(1), Star>>
    /\ result.kind = "InvalidRange"

\* C8: the range parsed from `vers:<scheme>/*` contains every version.
C8_StarContainsAll ==
    (pc = "queried" /\ given = <<Star>> /\ text = Specifier(SchemeName, <<Star>>))
    => query.answer

\* C8 witness: `vers:npm/*` was parsed and asked for version 4
C8_Witness ==
    /\ pc = "queried"
    /\ text = Specifier(SchemeName, <<Star>>)
    /\ range.constraints = <<Star>>
    /\ query = [version |-> 4, answer |-> TRUE]

\* C9: a range whose constraints are all "!=" (one or more, on distinct
\* versions) contains a version v exactly when v is the version of none of
\* them.
C9_OnlyExclusions ==
    (/\ pc = "queried"
     /\ \A i \in 1..Len(range.constraints) : range.constraints[i].comparator = "NotEqual")
    => (query.answer
        <=> \A i \in 1..Len(range.constraints) : range.constraints[i].version # query.version)

\* C9 witness: the range `!=1|!=5` was asked for 5, its second exclusion,
\* and answered false
C9_Witness ==
    /\ pc = "queried"
    /\ range.constraints = <<NE(1), NE(5)>>
    /\ query = [version |-> 5, answer |-> FALSE]

\* C10: for every range r returned by a successful parse, parsing the text
\* Display(r) succeeds and gives a range with the same scheme and the same
\* constraint sequence, whose Display is Display(r) again.
C10_RoundTrip ==
    (pc = "reparsed" /\ text # <<>>)
    => /\ reparsed.ok
       /\ reparsed.value = range
       /\ Display(reparsed.value) = shown

\* C10 witness: `!=3|<5|1` was parsed, printed as `vers:npm/!=3|<5` and
\* that text parsed again
C10_Witness ==
    /\ pc = "reparsed"
    /\ text = Specifier(SchemeName, <<NE(3), LT(5), EQ(1)>>)
    /\ shown = Specifier(SchemeName, <<NE(3), LT(5)>>)
    /\ reparsed.ok

\* the text without its spaces and tabs
Unspaced(s) == SelectSeq(s, LAMBDA ch : ch \notin {" ", "\t"})

\* the text, spaces and tabs aside, begins with the letters of prefix (as
\* it does when it begins with them as it stands, which is tested first)
Begins(s, prefix) ==
    \/ Len(s) >= Len(prefix) /\ SubSeq(s, 1, Len(prefix)) = prefix
    \/ /\ Len(Unspaced(s)) >= Len(prefix)
       /\ SubSeq(Unspaced(s), 1, Len(prefix)) = prefix

\* C11: parsing a specifier whose scheme-name part between `vers:` and `/`
\* is empty (such as `vers:/1`) fails with MissingVersioningScheme, the
\* error kind of a specifier without any `/`.
C11_EmptySchemeIsMissingScheme ==
    (Parsed /\ Begins(text, <<"v", "e", "r", "s", ":", "/">>))
    => (~result.ok /\ result.kind = "MissingVersioningScheme")

\* C12: a specifier with a space or a tab inserted at any position parses
\* to the outcome of the specifier without it: the same range (scheme and
\* constraints) or the same error.
C12_WhitespaceInsensitive ==
    pc = "respaced"
    => IF result.ok
       THEN reparsed.ok /\ reparsed.value = range
       ELSE reparsed = result

\* C12 witness: `vers:npm/>=1` was parsed, and parsed again with a tab
\* between the two characters of its comparator
C12_Witness ==
    /\ pc = "respaced"
    /\ text = Specifier(SchemeName, <<GE(1)>>)
    /\ spaced = <<"v", "e", "r", "s", ":", "n", "p", "m", "/", ">", "\t", "=", "1">>
    /\ reparsed.ok
    /\ reparsed.value.constraints = <<GE(1)>>

\* C13: parsing a specifier that has no `:`, or whose text before the first
\* `:` is not exactly the tag `vers` in lower case (spaces and tabs aside,
\* which from_str removes first), fails with InvalidScheme, whatever
\* follows the colon.  It is stated of both calls of from_str.
C13_InvalidScheme ==
    /\ (Parsed /\ ~Begins(text, <<"v", "e", "r", "s", ":">>))
       => (~result.ok /\ result.kind = "InvalidScheme")
    /\ (pc = "respaced" /\ ~Begins(spaced, <<"v", "e", "r", "s", ":">>))
       => (~reparsed.ok /\ reparsed.kind = "InvalidScheme")

\* C13 witness: `VERS:npm/>=1`, the tag in capitals before a valid rest,
\* failed with InvalidScheme
C13_Witness ==
    /\ pc = "failed"
    /\ text = TaggedSpecifier(<<"V", "E", "R", "S">>, SchemeName, <<GE(1)>>)
    /\ result.kind = "InvalidScheme"

\* the text after `vers:`, spaces and tabs aside
AfterTag(s) == SubSeq(Unspaced(s), 6, Len(Unspaced(s)))

\* the specifier has the tag `vers`, a scheme name of one character or more
\* and, after the first `/`, nothing but `|` delimiters (or nothing at all);
\* such a text ends with `/`, `|`, a space or a tab, which is tested first
OnlyDelimiters(s) ==
    /\ s # <<>>
    /\ s[Len(s)] \in {"/", "|", " ", "\t"}
    /\ Begins(s, <<"v", "e", "r", "s", ":">>)
    /\ LET rest == AfterTag(s)
       IN  /\ \E i \in 2..Len(rest) : rest[i] = "/"
           /\ rest[1] # "/"
           /\ \A i \in 2..Len(rest) :
                 (\E j \in 2..(i - 1) : rest[j] = "/") => rest[i] = "|"

\* C14: parsing a specifier with the tag `vers` and a non-empty scheme whose
\* constraint list is empty, or holds `|` delimiters only so that no token
\* remains, fails with EmptyConstraints.  Stated of both calls of from_str.
C14_EmptyConstraints ==
    /\ (Parsed /\ OnlyDelimiters(text))
       => (~result.ok /\ result.kind = "EmptyConstraints")
    /\ (pc = "respaced" /\ OnlyDelimiters(spaced))
       => (~reparsed.ok /\ reparsed.kind = "EmptyConstraints")

\* C14 witness: `vers:npm/|||`, three delimiters and no token, failed with
\* EmptyConstraints
C14_Witness ==
    /\ pc = "failed"
    /\ text = <<"v", "e", "r", "s", ":", "n", "p", "m", "/", "|", "|", "|">>
    /\ result.kind = "EmptyConstraints"

\* the scheme name as written: the text, spaces and tabs aside, between
\* `vers:` and the first `/`
WrittenScheme(s) ==
    LET rest == AfterTag(s)
    IN  SubSeq(rest, 1, (CHOOSE i \in 1..Len(rest) :
                            rest[i] = "/" /\ \A j \in 1..(i - 1) : rest[j] # "/") - 1)

\* the specifier has the tag `vers` and a scheme name of one character or more
HasSchemeName(s) ==
    /\ Begins(s, <<"v", "e", "r", "s", ":">>)
    /\ \E i \in 2..Len(AfterTag(s)) : AfterTag(s)[i] = "/"
    /\ AfterTag(s)[1] # "/"

\* C15: the scheme-dispatching parser accepts the scheme names `npm` and
\* `semver` only, compared after lower-casing: with the tag `vers` and any
\* other non-empty scheme name it fails with UnsupportedVersioningScheme
\* carrying the lower-cased name, with `npm` or `semver` in any letter case
\* it does not, and every range it returns has one of the two names.
C15_UnsupportedScheme ==
    /\ (pc = "dispatched" /\ HasSchemeName(dynamic.text))
       => LET name == ToLowercase(WrittenScheme(dynamic.text))
          IN  IF name \in {<<"n", "p", "m">>, <<"s", "e", "m", "v", "e", "r">>}
              THEN dynamic.result.ok \/ dynamic.result.kind # "UnsupportedVersioningScheme"
              ELSE /\ ~dynamic.result.ok
                   /\ dynamic.result.kind = "UnsupportedVersioningScheme"
                   /\ dynamic.result.detail = name
    /\ (pc = "dispatched" /\ dynamic.result.ok)
       => dynamic.result.value.versioning_scheme
            \in {<<"n", "p", "m">>, <<"s", "e", "m", "v", "e", "r">>}

\* C15 witness: `vers:PyPI/>=1` was refused with the name in lower case
C15_Witness ==
    /\ pc = "dispatched"
    /\ dynamic.text = TaggedSpecifier(<<"v", "e", "r", "s">>, <<"P", "y", "P", "I">>, <<GE(1)>>)
    /\ dynamic.result.kind = "UnsupportedVersioningScheme"
    /\ dynamic.result.detail = <<"p", "y", "p", "i">>

\* the interval reading of a constraint sequence: the points of its "=",
\* "<=" and ">=" constraints, and, away from the points of its "!="
\* constraints, everything when all constraints are "!=", else what lies
\* below a first upper bound, above a last lower bound, or between a lower
\* bound and the upper bound that follows it
IntervalReading(cs, v) ==
    LET b == BoundsOf(cs)
    IN  \/ \E i \in 1..Len(cs) :
              /\ cs[i].comparator \in {"Equal", "LessThanOrEqual", "GreaterThanOrEqual"}
              /\ cs[i].version = v
        \/ /\ \A i \in 1..Len(cs) : cs[i].comparator = "NotEqual" => cs[i].version # v
           /\ \/ \A i \in 1..Len(cs) : cs[i].comparator = "NotEqual"
              \/ b # <<>> /\ b[1].comparator \in {"LessThan", "LessThanOrEqual"}
                          /\ v < b[1].version
              \/ b # <<>> /\ b[Len(b)].comparator \in {"GreaterThan", "GreaterThanOrEqual"}
                          /\ v > b[Len(b)].version
              \/ \E i \in 1..(Len(b) - 1) :
                    /\ b[i].comparator \in {"GreaterThan", "GreaterThanOrEqual"}
                    /\ b[i + 1].comparator \in {"LessThan", "LessThanOrEqual"}
                    /\ b[i].version < v
                    /\ v < b[i + 1].version

\* C16 as claimed: for every range on which normalize_and_validate returned
\* Ok (a range constructed and normalized, or parsed from a list that
\* from_str normalized), contains(v) equals the interval reading of the
\* constraint sequence.
C16_ContainsIsIntervalReading ==
    (pc = "queried" /\ (text = <<>> \/ given # <<Star>>))
    => (query.answer <=> IntervalReading(range.constraints, query.version))

\* C16 amended: contains(v) is true for the lone `*`, and for every other
\* range on which normalize_and_validate returned Ok it equals the interval
\* reading of the constraint sequence.
C16_ContainsIsIntervalReadingOrStar ==
    pc = "queried"
    => (query.answer <=> \/ range.constraints = <<Star>>
                         \/ IntervalReading(range.constraints, query.version))

\* C16 witness: `!=3|>=1|<5|>5` normalized was asked for 3, the excluded
\* point inside its first interval, and answered false
C16_Witness ==
    /\ pc = "queried"
    /\ range.constraints = <<GE(1), NE(3), LT(5)>>
    /\ query = [version |-> 3, answer |-> FALSE]

\* the loop is about to run an iteration with a current and a next element
HasNext == pc = "loop" /\ Len(loop_other) >= 2

\* c is in the work list or in the accepted output after the step
KeptAfter(c) ==
    \/ \E i \in 1..Len(loop_other') : loop_other'[i] = c
    \/ \E i \in 1..Len(loop_filtered') : loop_filtered'[i] = c

\* current is ">" or ">=" and next is ">", ">=" or "="
TwoLowerBounds ==
    /\ HasNext
    /\ loop_other[1].comparator \in {"GreaterThan", "GreaterThanOrEqual"}
    /\ loop_other[2].comparator \in {"GreaterThan", "GreaterThanOrEqual", "Equal"}

\* C17 as claimed: in the redundancy-elimination pass, when the current
\* constraint is ">" or ">=" and the next one in version order is ">", ">="
\* or "=", the iteration drops the current constraint (the smaller version)
\* and keeps the next one (the larger version).
C17_DropsSmallerLowerBound ==
    [][TwoLowerBounds => (~KeptAfter(loop_other[1]) /\ KeptAfter(loop_other[2]))]_vars

\* C17 amended: in that case the iteration drops the next constraint (the
\* larger version) and keeps the current one (the smaller version), which
\* is the current constraint of the next iteration again.
C17_DropsLargerLowerBound ==
    [][TwoLowerBounds => /\ KeptAfter(loop_other[1])
                         /\ ~KeptAfter(loop_other[2])
                         /\ loop_other' = <<loop_other[1]>> \o Tail(Tail(loop_other))
                         /\ loop_filtered' = loop_filtered]_vars

\* C17 witness: the loop entered with `>1`, `>=3`, `<5` has run one
\* iteration, which left `>1` in front of `<5`
C17_Witness ==
    /\ pc = "loop"
    /\ given = <<GT(1), GE(3), LT(5)>>
    /\ loop_other = <<GT(1), LT(5)>>
    /\ loop_filtered = <<>>

\* current is "=", "<" or "<=" and next is "<" or "<="
TwoUpperBounds ==
    /\ HasNext
    /\ loop_other[1].comparator \in {"Equal", "LessThan", "LessThanOrEqual"}
    /\ loop_other[2].comparator \in {"LessThan", "LessThanOrEqual"}

C19_LoopTerminates == (pc = "loop") ~> (pc = "looped")

\* C19 witness: the loop entered with `>1`, `<3`, `<5` was left with `>1`,
\* `<5`, after an iteration that accepted `>1`, one that dropped `<3` and
\* pushed `>1` back, and two more that accepted `>1` again and `<5`
C19_Witness ==
    /\ pc = "looped"
    /\ given = <<GT(1), LT(3), LT(5)>>
    /\ loop_other = <<>>
    /\ loop_filtered = <<GT(1), LT(5)>>

\* C20: for every list of two or more constraints without `*` and with
\* pairwise distinct versions normalize_and_validate returns Ok: the two
\* structural checks after the redundancy-elimination pass never report
\* InvalidRange, which only the check that `*` stands alone produces.
C20_StructuralChecksNeverFail ==
    /\ (Called /\ Len(given) >= 2 /\ StarFree(given))
       => (result.ok \/ Repeated(given) # {})
    /\ (Called /\ ~result.ok /\ result.kind = "InvalidRange")
       => /\ Len(given) >= 2
          /\ ~StarFree(given)
          /\ result.msg = "Star constraint must be used alone"

\* C20 witness: `<5`, `3`, `<1`, which sorted is an upper bound, a point
\* and an upper bound, was normalized to `<5` and validated
C20_Witness ==
    /\ pc = "ready"
    /\ given = <<LT(5), EQ(3), LT(1)>>
    /\ result.ok
    /\ range.constraints = <<LT(5)>>

\* C21: for every range returned by a successful parse, contains(v) is
\* false for every v that is the version of one of its "!=" constraints,
\* whatever bound and "=" constraints the range also holds.
C21_ExcludedVersionNotContained ==
    (/\ pc = "queried"
     /\ text # <<>>
     /\ \E i \in 1..Len(range.constraints) : range.constraints[i] = NE(query.version))
    => ~query.answer

\* C21 witness: `>=1|!=3|<5` was parsed and asked for 3, which lies inside
\* its interval and is excluded
C21_Witness ==
    /\ pc = "queried"
    /\ text = Specifier(SchemeName, <<GE(1), NE(3), LT(5)>>)
    /\ range.constraints = <<GE(1), NE(3), LT(5)>>
    /\ query = [version |-> 3, answer |-> FALSE]

\* the versions a constraint list names as included points: those of its
\* "=", "<=" and ">=" constraints
IncludedPoints(cs) ==
    {cs[i].version : i \in {k \in 1..Len(cs) :
        cs[k].comparator \in {"Equal", "LessThanOrEqual", "GreaterThanOrEqual"}}}

\* C22: normalization loses no included point: for every star-free input
\* list with pairwise distinct versions, the version of every input "=",
\* "<=" or ">=" constraint is contained in the range after
\* normalize_and_validate, also when that constraint was dropped as
\* redundant.
C22_NoIncludedPointLost ==
    (/\ pc = "queried"
     /\ query.version \in IncludedPoints(given)
     /\ StarFree(given)
     /\ Repeated(given) = {})
    => query.answer

\* C22 witness: the list `=3`, `>=1`, `<5` was normalized to `>=1|<5`,
\* which dropped `=3`, and the range asked for 3 answered true
C22_Witness ==
    /\ pc = "queried"
    /\ text = <<>>
    /\ given = <<EQ(3), GE(1), LT(5)>>
    /\ range.constraints = <<GE(1), LT(5)>>
    /\ query = [version |-> 3, answer |-> TRUE]

\* C23: normalize_and_validate only removes and reorders constraints: after
\* it returned Ok, every constraint of the range is one of the input
\* constraints, comparator and version unchanged, and every input "!="
\* constraint is still present.
C23_OnlyRemovesAndReorders ==
    (pc = "ready")
    => /\ \A i \in 1..Len(range.constraints) :
              \E j \in 1..Len(given) : given[j] = range.constraints[i]
       /\ \A j \in 1..Len(given) :
              given[j].comparator = "NotEqual"
              => \E i \in 1..Len(range.constraints) : range.constraints[i] = given[j]

\* C23 witness: the list `<5`, `!=3`, `<=1` was normalized to `!=3|<5`:
\* `<=1` removed, the other two reordered, `!=3` kept
C23_Witness ==
    /\ pc = "ready"
    /\ text = <<>>
    /\ given = <<LT(5), NE(3), LE(1)>>
    /\ range.constraints = <<NE(3), LT(5)>>

\* C24: normalize_and_validate is idempotent: called again on a range for
\* which it returned Ok, it returns Ok and leaves the constraint sequence
\* exactly as it was.
C24_Idempotent ==
    [][(pc = "ready" /\ pc' \in {"renormalized", "failed"})
       => (result'.ok /\ range' = range)]_vars

\* C24 witness: the list `=3`, `>=1`, `<5` was normalized to `>=1|<5` and
\* normalize_and_validate was called on that range once more
C24_Witness ==
    /\ pc = "renormalized"
    /\ given = <<EQ(3), GE(1), LT(5)>>
    /\ range.constraints = <<GE(1), LT(5)>>
    /\ result.ok

\* C25: the outcome of normalize_and_validate does not depend on the order
\* in which the input constraints are listed: the same constraints with two
\* neighbours exchanged give the same Ok constraint sequence or the same
\* error.  Every reordering of a list is a chain of such exchanges, and all
\* lists over the input constraints are constructed.
C25_OrderIndependent ==
    (pc = "reordered")
    => /\ permuted.outcome.result = result
       /\ result.ok => permuted.outcome.constraints = range.constraints

\* C25 witness: the lists `<5`, `>=1`, `=3` and `<5`, `=3`, `>=1` were both
\* normalized, to `>=1|<5`
C25_Witness ==
    /\ pc = "reordered"
    /\ given = <<LT(5), GE(1), EQ(3)>>
    /\ permuted.constraints = <<LT(5), EQ(3), GE(1)>>
    /\ permuted.outcome = Normalized(OkUnit, <<GE(1), LT(5)>>)
    /\ range.constraints = <<GE(1), LT(5)>>

====
